---- MODULE Spec2Model ----
(***************************************************************************)
(* finance_pulse: the indicator engine of utils.py (RSI, SMA, EMA,         *)
(* Bollinger, MACD), the chart assembly, the metrics summary, the          *)
(* magnitude formatter, and the render branch of app.py that calls them.   *)
(*                                                                         *)
(* Numbers.  pandas works on IEEE doubles; the model works on exact        *)
(* values, so that an equality it reports is an equality of the            *)
(* mathematical results, free of rounding:                                 *)
(*   - an extended rational [n, d]: d > 0 is the reduced fraction n/d,     *)
(*     d = 0 is one of the three special doubles (NaN, +inf, -inf);        *)
(*   - a scaled column [den, num]: position i (0-based) holds the exact    *)
(*     value num[i+1] / den^i, num[i+1] a signed integer of any size       *)
(*     (the denominators of an exponential average grow with i).           *)
(***************************************************************************)
EXTENDS Integers, Sequences, FiniteSets, TLC

VARIABLES
    pc,               \* position of the app.py script run, or of a library call
    show_indicators,  \* app.py:35 the sidebar's toggle dict
    hist_data,        \* app.py:86 the caller's DataFrame object (None when absent)
    company_info,     \* app.py:86 the fundamentals dict (None when absent)
    outcome,          \* what the market-data fetch did: "raised", "empty", "data"
    original,         \* the content of the DataFrame object as the caller got it
    metrics,          \* app.py:111 what calculate_metrics returned
    figs,             \* the figures create_price_chart returned, in call order
    shown,            \* what the page shows: "none", "info", "error", "exception", "page"
    result,           \* what calculate_technical_indicators returned
    num,              \* the argument of format_large_number
    text              \* what format_large_number returned

vars == <<pc, show_indicators, hist_data, company_info, outcome, original, metrics,
          figs, shown, result, num, text>>

\* Python None, comparable with a DataFrame or a dict
None == [none |-> TRUE]

-----------------------------------------------------------------------------
(* Small integer helpers.                                                  *)

Abs(x) == IF x < 0 THEN -x ELSE x

Max(a, b) == IF a >= b THEN a ELSE b

RECURSIVE Gcd(_, _)
Gcd(a, b) == IF b = 0 THEN a ELSE Gcd(b, a % b)

Lcm(a, b) == (a \div Gcd(a, b)) * b

RECURSIVE SumSeq(_, _, _)
\* s[lo] + ... + s[hi] for a sequence of integers
SumSeq(s, lo, hi) ==
    IF lo > hi THEN 0
    ELSE IF lo = hi THEN s[lo]
    ELSE LET mid == (lo + hi) \div 2
         IN  SumSeq(s, lo, mid) + SumSeq(s, mid + 1, hi)

-----------------------------------------------------------------------------
(* Extended rationals: the doubles of one small computation.               *)

NaN == [n |-> 0, d |-> 0]

Sign(x) == IF x > 0 THEN 1 ELSE IF x < 0 THEN -1 ELSE 0

\* the reduced fraction n/d for d # 0; n/0 is +inf, -inf or NaN as in IEEE
Frac(n, d) ==
    IF d = 0 THEN [n |-> Sign(n), d |-> 0]
    ELSE LET g == Gcd(Abs(n), Abs(d))
             s == IF d < 0 THEN -1 ELSE 1
         IN  [n |-> s * (n \div g), d |-> s * (d \div g)]

IsNaN(x) == x.d = 0 /\ x.n = 0

IsInf(x) == x.d = 0 /\ x.n # 0

IsFinite(x) == x.d # 0

XNeg(x) == [n |-> -x.n, d |-> x.d]

XAdd(x, y) ==
    IF IsNaN(x) \/ IsNaN(y) THEN NaN
    ELSE IF IsInf(x) /\ IsInf(y) THEN (IF x.n = y.n THEN x ELSE NaN)
    ELSE IF IsInf(x) THEN x
    ELSE IF IsInf(y) THEN y
    ELSE LET l == Lcm(x.d, y.d)
         IN  Frac(x.n * (l \div x.d) + y.n * (l \div y.d), l)

XSub(x, y) == XAdd(x, XNeg(y))

XMul(x, y) ==
    IF IsNaN(x) \/ IsNaN(y) THEN NaN
    ELSE IF IsInf(x) \/ IsInf(y)
         THEN (IF x.n = 0 \/ y.n = 0 THEN NaN
               ELSE [n |-> Sign(x.n) * Sign(y.n), d |-> 0])
    ELSE Frac(x.n * y.n, x.d * y.d)

\* IEEE division: finite/0 is a signed infinity, 0/0 and inf/inf are NaN
XDiv(x, y) ==
    IF IsNaN(x) \/ IsNaN(y) THEN NaN
    ELSE IF IsInf(x) THEN (IF IsInf(y) THEN NaN
                           ELSE [n |-> x.n * (IF y.n < 0 THEN -1 ELSE 1), d |-> 0])
    ELSE IF IsInf(y) THEN Frac(0, 1)
    ELSE IF y.n = 0 THEN [n |-> Sign(x.n), d |-> 0]
    ELSE Frac(x.n * y.d, x.d * y.n)

XLeq(x, y) == IsFinite(x) /\ IsFinite(y) /\ x.n * y.d <= y.n * x.d

-----------------------------------------------------------------------------
(* Signed integers of any size: [neg, mag], mag the little-endian limbs    *)
(* in base Base with no leading zero limb; zero is [FALSE, <<>>].          *)

Base == 10 ^ 5

Limb(a, i) == IF i <= Len(a) THEN a[i] ELSE 0

RECURSIVE Trim(_)
Trim(a) == IF a # <<>> /\ a[Len(a)] = 0 THEN Trim(SubSeq(a, 1, Len(a) - 1)) ELSE a

RECURSIVE NatAddC(_, _, _, _)
NatAddC(a, b, carry, acc) ==
    IF Len(acc) >= Max(Len(a), Len(b))
    THEN (IF carry = 0 THEN acc ELSE Append(acc, carry))
    ELSE LET i == Len(acc) + 1
             t == Limb(a, i) + Limb(b, i) + carry
         IN  NatAddC(a, b, t \div Base, Append(acc, t % Base))

NatAdd(a, b) == NatAddC(a, b, 0, <<>>)

RECURSIVE NatSubC(_, _, _, _)
\* a - b for a >= b
NatSubC(a, b, borrow, acc) ==
    IF Len(acc) >= Len(a) THEN Trim(acc)
    ELSE LET i == Len(acc) + 1
             t == a[i] - Limb(b, i) - borrow
         IN  IF t < 0 THEN NatSubC(a, b, 1, Append(acc, t + Base))
             ELSE NatSubC(a, b, 0, Append(acc, t))

NatSub(a, b) == NatSubC(a, b, 0, <<>>)

RECURSIVE NatLessAt(_, _, _)
NatLessAt(a, b, i) ==
    IF i = 0 THEN FALSE
    ELSE IF a[i] # b[i] THEN a[i] < b[i]
    ELSE NatLessAt(a, b, i - 1)

NatLess(a, b) ==
    IF Len(a) # Len(b) THEN Len(a) < Len(b) ELSE NatLessAt(a, b, Len(a))

RECURSIVE NatMulSmallC(_, _, _, _)
\* a * k for 0 < k < 2^31 / Base
NatMulSmallC(a, k, carry, acc) ==
    IF Len(acc) >= Len(a)
    THEN (IF carry = 0 THEN acc
          ELSE IF carry < Base THEN Append(acc, carry)
          ELSE Append(Append(acc, carry % Base), carry \div Base))
    ELSE LET t == a[Len(acc) + 1] * k + carry
         IN  NatMulSmallC(a, k, t \div Base, Append(acc, t % Base))

NatMulSmall(a, k) == IF k = 0 THEN <<>> ELSE NatMulSmallC(a, k, 0, <<>>)

RECURSIVE NatDivSmallC(_, _, _, _)
\* the quotient of a by s for 0 < s < 2^31 / Base, most significant limb first
NatDivSmallC(a, s, rem, acc) ==
    IF Len(acc) >= Len(a) THEN Trim(acc)
    ELSE LET t == rem * Base + a[Len(a) - Len(acc)]
         IN  NatDivSmallC(a, s, t % s, <<t \div s>> \o acc)

NatDivSmall(a, s) == NatDivSmallC(a, s, 0, <<>>)

RECURSIVE NatOf(_)
NatOf(k) == IF k = 0 THEN <<>> ELSE <<k % Base>> \o NatOf(k \div Base)

BigOf(k) == [neg |-> k < 0, mag |-> NatOf(Abs(k))]

BigZero == BigOf(0)

BigNeg(x) == IF x.mag = <<>> THEN x ELSE [neg |-> ~x.neg, mag |-> x.mag]

BigAdd(x, y) ==
    IF x.neg = y.neg THEN [neg |-> x.neg, mag |-> NatAdd(x.mag, y.mag)]
    ELSE IF x.mag = y.mag THEN BigZero
    ELSE IF NatLess(x.mag, y.mag) THEN [neg |-> y.neg, mag |-> NatSub(y.mag, x.mag)]
    ELSE [neg |-> x.neg, mag |-> NatSub(x.mag, y.mag)]

BigSub(x, y) == BigAdd(x, BigNeg(y))

\* x * k for a small integer k
BigScale(x, k) ==
    IF k = 0 \/ x.mag = <<>> THEN BigZero
    ELSE [neg |-> x.neg # (k < 0), mag |-> NatMulSmall(x.mag, Abs(k))]

\* x / s for a small s > 0 that divides x
BigDivSmall(x, s) ==
    LET q == NatDivSmall(x.mag, s)
    IN  IF q = <<>> THEN BigZero ELSE [neg |-> x.neg, mag |-> q]

-----------------------------------------------------------------------------
(* Scaled columns: [den, num], the value at 1-based position p is          *)
(* num[p] / den^(p-1).                                                     *)

RECURSIVE ScaledFrom(_, _, _, _)
ScaledFrom(ints, den, pow, acc) ==
    IF Len(acc) >= Len(ints) THEN acc
    ELSE ScaledFrom(ints, den, BigScale(pow, den),
                    Append(acc, BigScale(pow, ints[Len(acc) + 1])))

\* a column of integers as a scaled column of denominator den
Scaled(ints, den) == [den |-> den, num |-> ScaledFrom(ints, den, BigOf(1), <<>>)]

\* pandas Series.__sub__ on two aligned columns of one denominator
ColSub(A, B) ==
    [den |-> A.den, num |-> [p \in 1..Len(A.num) |-> BigSub(A.num[p], B.num[p])]]

-----------------------------------------------------------------------------
(* pandas primitives used by utils.py.                                     *)

\* Series.diff(): missing at the first position, then x[i] - x[i-1]
diff(x) == [p \in 1..Len(x) |-> IF p = 1 THEN NaN ELSE Frac(x[p] - x[p - 1], 1)]

\* delta > 0, delta < 0 on doubles: a comparison with NaN is False
Positive(v) == IsFinite(v) /\ v.n > 0

Negative(v) == IsFinite(v) /\ v.n < 0

RECURSIVE XSum(_, _, _)
\* x[lo] + ... + x[hi], summed by halves
XSum(x, lo, hi) ==
    IF lo > hi THEN Frac(0, 1)
    ELSE IF lo = hi THEN x[lo]
    ELSE LET mid == (lo + hi) \div 2
         IN  XAdd(XSum(x, lo, mid), XSum(x, mid + 1, hi))

\* a rolling mean whose window ends one position early: x[p-window .. p-1]
rolling_mean_shifted(x, window) ==
    [p \in 1..Len(x) |->
        IF p <= window THEN NaN
        ELSE XDiv(XSum(x, p - window, p - 1), Frac(window, 1))]

\* Series.rolling(window).mean(): min_periods = window, trailing window
\* x[p-window+1 .. p]; missing until the window is full
rolling_mean(x, window) ==
    [p \in 1..Len(x) |->
        IF p < window THEN NaN
        ELSE XDiv(XSum(x, p - window + 1, p), Frac(window, 1))]

\* Series.rolling(window).std() squared: the sample variance (ddof = 1) of
\* x[p-window+1 .. p], missing until the window is full
rolling_var(x, window) ==
    [p \in 1..Len(x) |->
        IF p < window THEN NaN
        ELSE LET s1 == SumSeq(x, p - window + 1, p)
                 s2 == SumSeq([q \in 1..Len(x) |-> x[q] * x[q]], p - window + 1, p)
             IN  Frac(window * s2 - s1 * s1, window * (window - 1))]

RECURSIVE EwmSwapped(_, _, _)
\* an exponential average with the two weights exchanged:
\* y[i] = alpha*y[i-1] + (1-alpha)*x[i]
EwmSwapped(X, s, acc) ==
    IF Len(acc) >= Len(X.num) THEN acc
    ELSE LET p == Len(acc) + 1
         IN  EwmSwapped(X, s,
                        Append(acc, BigAdd(BigDivSmall(BigScale(X.num[p], s - 2), s),
                                           BigScale(acc[p - 1], 2 * (X.den \div s)))))

RECURSIVE EwmFrom(_, _, _)
EwmFrom(X, s, acc) ==
    IF Len(acc) >= Len(X.num) THEN acc
    ELSE LET p == Len(acc) + 1
         IN  EwmFrom(X, s,
                     Append(acc, BigAdd(BigDivSmall(BigScale(X.num[p], 2), s),
                                        BigScale(acc[p - 1], (s - 2) * (X.den \div s)))))

\* Series.ewm(span, adjust=False).mean(): alpha = 2/(span+1), y[0] = x[0],
\* y[i] = (1-alpha)*y[i-1] + alpha*x[i], defined at every position
\* (min_periods = 0).  X is a scaled column whose denominator D is a multiple
\* of s = span+1; with x[i] = X[i]/D^i and y[i-1] = Y[i-1]/D^(i-1) the exact
\* value is y[i] = (2*X[i]/s + (s-2)*(D/s)*Y[i-1]) / D^i.
ewm_mean(X, span) ==
    [den |-> X.den,
     num |-> IF X.num = <<>> THEN <<>> ELSE EwmFrom(X, span + 1, <<X.num[1]>>)]

\* q + k*sqrt(r): the value of BB_middle +/- 2*std
Surd(q, k, r) == IF IsNaN(q) \/ IsNaN(r) THEN [q |-> NaN, k |-> 0, r |-> NaN]
                 ELSE [q |-> q, k |-> k, r |-> r]

toFrac(x) == [p \in 1..Len(x) |-> Frac(x[p], 1)]

\* df[name] = column
SetCol(d, name, col) ==
    [c \in DOMAIN d \cup {name} |-> IF c = name THEN col ELSE d[c]]

-----------------------------------------------------------------------------
(* utils.py: calculate_technical_indicators                                *)

RSI_WINDOW == 14
SMA_SHORT == 20
SMA_LONG == 50
EMA_SPAN == 20
BB_WINDOW == 20
BB_K == 2
MACD_FAST == 12
MACD_SLOW == 26
MACD_SIGNAL == 9

\* the per-step denominators of the exponential averages: alpha = 2/(span+1)
EMA_DEN == EMA_SPAN + 1

MACD_DEN == Lcm(Lcm(MACD_FAST + 1, MACD_SLOW + 1), MACD_SIGNAL + 1)

\* an RSI whose loss average keeps the sign of the falls (the negation of
\* line 26 left out)
RSIColumnSignedLoss(close) ==
    LET delta == diff(close)
        zero  == Frac(0, 1)
        gain  == rolling_mean([p \in 1..Len(close) |->
                                 IF Positive(delta[p]) THEN delta[p] ELSE zero],
                              RSI_WINDOW)
        loss  == rolling_mean([p \in 1..Len(close) |->
                                 IF Negative(delta[p]) THEN delta[p] ELSE zero],
                              RSI_WINDOW)
        rs    == [p \in 1..Len(close) |-> XDiv(gain[p], loss[p])]
        hundred == Frac(100, 1)
    IN  [p \in 1..Len(close) |->
            XSub(hundred, XDiv(hundred, XAdd(Frac(1, 1), rs[p])))]

\* utils.py:24-28.  The returned column is df['RSI'].
RSIColumn(close) ==
    LET delta == diff(close)
        zero  == Frac(0, 1)
        gain  == rolling_mean([p \in 1..Len(close) |->
                                 IF Positive(delta[p]) THEN delta[p] ELSE zero],
                              RSI_WINDOW)
        loss  == rolling_mean([p \in 1..Len(close) |->
                                 XNeg(IF Negative(delta[p]) THEN delta[p] ELSE zero)],
                              RSI_WINDOW)
        rs    == [p \in 1..Len(close) |-> XDiv(gain[p], loss[p])]
        hundred == Frac(100, 1)
    IN  [p \in 1..Len(close) |->
            XSub(hundred, XDiv(hundred, XAdd(Frac(1, 1), rs[p])))]

\* utils.py:28
SetRSI(d) == SetCol(d, "RSI", RSIColumn(d["Close"]))

\* utils.py:31-32
SetSMA(d) ==
    SetCol(SetCol(d, "SMA_20", rolling_mean(toFrac(d["Close"]), SMA_SHORT)),
           "SMA_50", rolling_mean(toFrac(d["Close"]), SMA_LONG))

\* an EMA_20 that smooths the EMA_20 column the frame already carries, when
\* it carries one, instead of the closes
SetEMAResmooth(d) ==
    SetCol(d, "EMA_20",
           ewm_mean(IF "EMA_20" \in DOMAIN d THEN d["EMA_20"]
                    ELSE Scaled(d["Close"], EMA_DEN), EMA_SPAN))

\* utils.py:33
SetEMA(d) == SetCol(d, "EMA_20", ewm_mean(Scaled(d["Close"], EMA_DEN), EMA_SPAN))

\* df['BB_middle'] + k * df['Close'].rolling(window).std()
Band(d, k) ==
    LET sd == rolling_var(d["Close"], BB_WINDOW)
    IN  [p \in 1..Len(d["Close"]) |-> Surd(d["BB_middle"][p], k, sd[p])]

\* utils.py:37-38
SetBands(d) == SetCol(SetCol(d, "BB_upper", Band(d, BB_K)), "BB_lower", Band(d, -BB_K))

\* utils.py:36-38
SetBollinger(d) ==
    SetBands(SetCol(d, "BB_middle", rolling_mean(toFrac(d["Close"]), BB_WINDOW)))

\* utils.py:45
SetHist(d) == SetCol(d, "MACD_Hist", ColSub(d["MACD"], d["MACD_Signal"]))

\* utils.py:44
SetSignal(d) == SetCol(d, "MACD_Signal", ewm_mean(d["MACD"], MACD_SIGNAL))

\* utils.py:41-45
SetMACD(d) ==
    SetHist(SetSignal(SetCol(d, "MACD",
                             ColSub(ewm_mean(Scaled(d["Close"], MACD_DEN), MACD_FAST),
                                    ewm_mean(Scaled(d["Close"], MACD_DEN), MACD_SLOW)))))

\* utils.py:19-47.  d is the content of the DataFrame object the caller
\* passed; the value is the content of that same object when the function
\* returns (every df[...] = ... assigns into it), which is also what it
\* returns (line 47).
calculate_technical_indicators(d) ==
    SetMACD(SetBollinger(SetEMA(SetSMA(SetRSI(d)))))

-----------------------------------------------------------------------------
(* utils.py: create_price_chart                                            *)

Index(d) == [p \in 1..Len(d["Close"]) |-> p]

Scatter(d, column, name, row) ==
    [type |-> "scatter", name |-> name, row |-> row, x |-> Index(d), y |-> d[column]]

Bar(d, column, name, row) ==
    [type |-> "bar", name |-> name, row |-> row, x |-> Index(d), y |-> d[column]]

\* utils.py:71-81
Candlestick(d) ==
    [type |-> "candlestick", name |-> "OHLC", row |-> 1, x |-> Index(d),
     y |-> <<d["Open"], d["High"], d["Low"], d["Close"]>>]

\* utils.py:53-60
DefaultIndicators ==
    [sma |-> FALSE, ema |-> FALSE, bollinger |-> FALSE, rsi |-> FALSE, macd |-> FALSE]

\* utils.py:84-86
SMATraces(d, cfg) ==
    IF cfg.sma
    THEN <<Scatter(d, "SMA_20", "SMA 20", 1), Scatter(d, "SMA_50", "SMA 50", 1)>>
    ELSE <<>>

\* utils.py:88-89
EMATraces(d, cfg) ==
    IF cfg.ema THEN <<Scatter(d, "EMA_20", "EMA 20", 1)>> ELSE <<>>

\* utils.py:91-94
BollingerTraces(d, cfg) ==
    IF cfg.bollinger
    THEN <<Scatter(d, "BB_upper", "BB Upper", 1), Scatter(d, "BB_middle", "BB Middle", 1),
           Scatter(d, "BB_lower", "BB Lower", 1)>>
    ELSE <<>>

\* utils.py:103-104
RSITraces(d, cfg) ==
    IF cfg.rsi THEN <<Scatter(d, "RSI", "RSI", 2)>> ELSE <<>>

RSI_OVERBOUGHT == 70
RSI_OVERSOLD == 30

\* reference lines drawn whatever the rsi toggle says
ReferenceLinesAlways(cfg) ==
    <<[y |-> RSI_OVERBOUGHT, row |-> 2, color |-> "red"],
      [y |-> RSI_OVERSOLD, row |-> 2, color |-> "green"]>>

\* utils.py:103,105-106: fig.add_hline adds one shape per call
ReferenceLines(cfg) ==
    IF cfg.rsi
    THEN <<[y |-> RSI_OVERBOUGHT, row |-> 2, color |-> "red"],
           [y |-> RSI_OVERSOLD, row |-> 2, color |-> "green"]>>
    ELSE <<>>

\* utils.py:109-112
MACDTraces(d, cfg) ==
    IF cfg.macd
    THEN <<Scatter(d, "MACD", "MACD", 3), Scatter(d, "MACD_Signal", "Signal", 3),
           Bar(d, "MACD_Hist", "MACD Histogram", 3)>>
    ELSE <<>>

CHART_HEIGHT == 800

\* utils.py:65-123: the figure assembled from the frame dfl
Figure(dfl, cfg, dark_mode) ==
    [data |-> <<Candlestick(dfl)>> \o SMATraces(dfl, cfg) \o EMATraces(dfl, cfg)
              \o BollingerTraces(dfl, cfg) \o <<Bar(dfl, "Volume", "Volume", 2)>>
              \o RSITraces(dfl, cfg) \o MACDTraces(dfl, cfg),
     shapes |-> ReferenceLines(cfg),
     layout |-> [template |-> IF dark_mode THEN "plotly_dark" ELSE "plotly_white",
                 height |-> CHART_HEIGHT, showlegend |-> TRUE]]

\* the returned figure with the content of the caller's object at return
Returned(dfl, cfg, dark_mode) == [fig |-> Figure(dfl, cfg, dark_mode), df |-> dfl]

\* utils.py:49-123.  d is the content of the caller's DataFrame object and
\* show None or a toggle dict; the value pairs the returned figure with the
\* content of the caller's object when the function returns: line 63 rebinds
\* the local name df to the object calculate_technical_indicators returns,
\* which is the object it was given.
create_price_chart(d, show, dark_mode) ==
    Returned(calculate_technical_indicators(d),
             IF show = None THEN DefaultIndicators ELSE show, dark_mode)

-----------------------------------------------------------------------------
(* utils.py: calculate_metrics                                             *)

\* Series.pct_change(): missing at the first position, then
\* x[i] / x[i-1] - 1 in double arithmetic
pct_change(x) ==
    [p \in 1..Len(x) |->
        IF p = 1 THEN NaN
        ELSE XSub(XDiv(Frac(x[p], 1), Frac(x[p - 1], 1)), Frac(1, 1))]

\* the positions of x that hold a value: pandas reductions skip NaN only
Valid(x) == {p \in 1..Len(x) : ~IsNaN(x[p])}

RECURSIVE XSumOver(_, _, _, _)
\* the sum of f[p] over the positions lo..hi that are in keep
XSumOver(f, keep, lo, hi) ==
    IF lo > hi THEN Frac(0, 1)
    ELSE IF lo = hi THEN (IF lo \in keep THEN f[lo] ELSE Frac(0, 1))
    ELSE LET mid == (lo + hi) \div 2
         IN  XAdd(XSumOver(f, keep, lo, mid), XSumOver(f, keep, mid + 1, hi))

\* Series.mean(): skipna, missing when nothing is left
mean(x) ==
    LET keep == Valid(x)
    IN  IF keep = {} THEN NaN
        ELSE XDiv(XSumOver(x, keep, 1, Len(x)), Frac(Cardinality(keep), 1))

\* Series.std() squared: skipna, ddof = 1, missing below two values
var(x) ==
    LET keep == Valid(x)
        n == Cardinality(keep)
        avg == mean(x)
        sq == [p \in 1..Len(x) |-> XMul(XSub(x[p], avg), XSub(x[p], avg))]
    IN  IF n < 2 THEN NaN
        ELSE XDiv(XSumOver(sq, keep, 1, Len(x)), Frac(n - 1, 1))

RECURSIVE MaxOver(_, _, _)
\* Series.max() of x[lo..hi]
MaxOver(x, lo, hi) ==
    IF lo = hi THEN x[lo]
    ELSE LET mid == (lo + hi) \div 2
         IN  Max(MaxOver(x, lo, mid), MaxOver(x, mid + 1, hi))

RECURSIVE MinOver(_, _, _)
\* Series.min() of x[lo..hi]
MinOver(x, lo, hi) ==
    IF lo = hi THEN x[lo]
    ELSE LET mid == (lo + hi) \div 2
             l == MinOver(x, lo, mid)
             r == MinOver(x, mid + 1, hi)
         IN  IF l <= r THEN l ELSE r

PERCENT == 100

\* utils.py:125-136.  Volatility is PERCENT * sqrt(var): the Surd
\* 0 + PERCENT*sqrt(var).
calculate_metrics(d) ==
    LET r == pct_change(d["Close"])
    IN  [DailyReturns |-> XMul(mean(r), Frac(PERCENT, 1)),
         Volatility |-> Surd(Frac(0, 1), PERCENT, var(r)),
         HighestPrice |-> IF d["High"] = <<>> THEN NaN
                          ELSE Frac(MaxOver(d["High"], 1, Len(d["High"])), 1),
         LowestPrice |-> IF d["Low"] = <<>> THEN NaN
                         ELSE Frac(MinOver(d["Low"], 1, Len(d["Low"])), 1),
         AverageVolume |-> mean(toFrac(d["Volume"]))]

-----------------------------------------------------------------------------
(* utils.py: format_large_number.  The argument is the number m * 10^e.    *)

Num(m, e) == [m |-> m, e |-> e]

\* num >= 10^k
Geq(n, k) == IF k >= n.e THEN n.m >= 10 ^ (k - n.e) ELSE n.m >= 1

RECURSIVE Zeros(_)
Zeros(k) == IF k = 0 THEN "" ELSE "0" \o Zeros(k - 1)

TwoDigits(h) == IF h < 10 THEN "0" \o ToString(h) ELSE ToString(h)

\* m / q rounded to the nearest integer, for m >= 0; a tie goes to the even
\* neighbour
RoundDiv(m, q) ==
    LET f == m \div q
        r == m % q
    IN  IF 2 * r > q \/ (2 * r = q /\ f % 2 = 1) THEN f + 1 ELSE f

\* f"{num / 10^k:.2f}"
Fixed2(n, k) ==
    IF n.m = 0 THEN "0.00"
    ELSE IF n.e >= k THEN ToString(n.m) \o Zeros(n.e - k) \o ".00"
    ELSE LET j == k - n.e
             h == IF j = 1 THEN 10 * Abs(n.m) ELSE RoundDiv(Abs(n.m), 10 ^ (j - 2))
         IN  (IF n.m < 0 THEN "-" ELSE "") \o ToString(h \div 100) \o "."
             \o TwoDigits(h % 100)

\* a formatter that picks the unit by the magnitude |num|
format_by_magnitude(n) ==
    IF Geq(Num(Abs(n.m), n.e), 9) THEN Fixed2(n, 9) \o "B"
    ELSE IF Geq(Num(Abs(n.m), n.e), 6) THEN Fixed2(n, 6) \o "M"
    ELSE IF Geq(Num(Abs(n.m), n.e), 3) THEN Fixed2(n, 3) \o "K"
    ELSE Fixed2(n, 0)

\* utils.py:138-148
format_large_number(n) ==
    IF Geq(n, 9) THEN Fixed2(n, 9) \o "B"
    ELSE IF Geq(n, 6) THEN Fixed2(n, 6) \o "M"
    ELSE IF Geq(n, 3) THEN Fixed2(n, 3) \o "K"
    ELSE Fixed2(n, 0)

\* the quotient the chosen branch formats lies exactly between two
\* two-decimal values: what Python prints then depends on the double
\* nearest to the quotient
IsTie(n) ==
    LET k == IF Geq(n, 9) THEN 9 ELSE IF Geq(n, 6) THEN 6 ELSE IF Geq(n, 3) THEN 3 ELSE 0
        j == k - n.e
    IN  j >= 3 /\ 2 * (n.m % (10 ^ (j - 2))) = 10 ^ (j - 2)

-----------------------------------------------------------------------------
(* Inputs.                                                                 *)

MaxClose == 2
MaxShort == 3
MaxBars  == 51
MaxCalls == 2

CloseVals == 0..MaxClose

\* every close series of at most MaxShort bars
ShortCloses == UNION {[1..n -> CloseVals] : n \in 0..MaxShort}

\* a flat stretch at level a, then from bar p on the levels b, c in turn
Shaped(len, p, a, b, c) ==
    [i \in 1..len |-> IF i < p THEN a ELSE IF (i - p) % 2 = 0 THEN b ELSE c]

Levels == {1, 2, 3}

ShapedLens == {RSI_WINDOW, RSI_WINDOW + 1, SMA_SHORT, SMA_LONG, MaxBars}

ShapedCloses ==
    UNION {{Shaped(len, p, 2, b, c) : p \in {1, len - 1}, b \in Levels, c \in Levels} :
           len \in ShapedLens}

\* the OHLCV frame of a close series: each bar opens at the previous close
Frame(close) ==
    LET open == [i \in 1..Len(close) |-> IF i = 1 THEN close[1] ELSE close[i - 1]]
    IN  [Open |-> open,
         High |-> [i \in 1..Len(close) |-> Max(open[i], close[i]) + 1],
         Low |-> [i \in 1..Len(close) |-> IF open[i] <= close[i] THEN open[i] ELSE close[i]],
         Close |-> close,
         Volume |-> [i \in 1..Len(close) |-> 1000 + 10 * i]]

Configs == [sma : BOOLEAN, ema : BOOLEAN, bollinger : BOOLEAN, rsi : BOOLEAN,
            macd : BOOLEAN]

Infos == {[longName |-> "Apple Inc."],
          [longName |-> "Apple Inc.", marketCap |-> Num(2300, 6)]}

\* dict.get(key, default)
Get(dict, key, default) == IF key \in DOMAIN dict THEN dict[key] ELSE default

NumInputs ==
    {n \in {Num(m, e) : m \in {-5000000, -5000, -500, -5, -1, 0, 1, 5, 23, 999, 1000,
                               1001, 1500, 2300, 999994, 999999, 1000000, 1500000,
                               999999999, 1000000000, 2147483647},
                        e \in {0, 3, 6}} : ~IsTie(n)}

-----------------------------------------------------------------------------
(* utils.py: get_stock_data, and the script run of app.py.                 *)

\* utils.py:7-17.  yf is what the market-data source did: it raised, or it
\* answered with a history (empty for a symbol it does not know) and an
\* info dict.
get_stock_data(yf) ==
    IF yf.raised THEN <<None, None>> ELSE <<yf.hist, yf.info>>

Idle ==
    /\ show_indicators = DefaultIndicators
    /\ hist_data = None
    /\ company_info = None
    /\ outcome = "none"
    /\ original = None
    /\ metrics = None
    /\ figs = <<>>
    /\ shown = "none"
    /\ result = None
    /\ num = Num(0, 0)
    /\ text = ""

Init == pc = "sidebar" /\ Idle

\* app.py:35-41, 54-63, 80, 158-159: the sidebar widgets, then the branch
\* on the ticker symbol
Sidebar ==
    /\ pc = "sidebar"
    /\ \E cfg \in Configs, ticker_symbol \in {"", "AAPL"} :
          /\ show_indicators' = cfg
          /\ IF ticker_symbol # ""
             THEN pc' = "fetch" /\ shown' = shown
             ELSE pc' = "done" /\ shown' = "info"
    /\ UNCHANGED <<hist_data, company_info, outcome, original, metrics, figs, result,
                   num, text>>

\* the frames the market-data source answers with in the app
AppCloses == ShortCloses \cup {Shaped(SMA_SHORT, 1, 2, 1, 3), Shaped(MaxBars, 1, 2, 3, 1)}

\* app.py:82-86
Fetch ==
    /\ pc = "fetch"
    /\ \E yf \in {[raised |-> TRUE, hist |-> None, info |-> None]}
                 \cup [raised : {FALSE}, hist : {Frame(c) : c \in AppCloses}, info : Infos] :
          LET got == get_stock_data(yf)
          IN  /\ hist_data' = got[1]
              /\ company_info' = got[2]
              /\ original' = got[1]
              /\ outcome' = IF yf.raised THEN "raised"
                            ELSE IF yf.hist["Close"] = <<>> THEN "empty" ELSE "data"
    /\ pc' = "branch"
    /\ UNCHANGED <<show_indicators, metrics, figs, shown, result, num, text>>

\* app.py:88, 155-156
Branch ==
    /\ pc = "branch"
    /\ IF hist_data # None /\ company_info # None
       THEN pc' = "header" /\ shown' = shown
       ELSE pc' = "done" /\ shown' = "error"
    /\ UNCHANGED <<show_indicators, hist_data, company_info, outcome, original, metrics,
                   figs, result, num, text>>

\* app.py:90-107: hist_data['Close'].iloc[-1] and .iloc[-2] raise IndexError
\* on a series too short to hold them, which ends the script run
Header ==
    /\ pc = "header"
    /\ IF Len(hist_data["Close"]) >= 2
       THEN pc' = "metrics" /\ shown' = shown
       ELSE pc' = "crashed" /\ shown' = "exception"
    /\ UNCHANGED <<show_indicators, hist_data, company_info, outcome, original, metrics,
                   figs, result, num, text>>

\* app.py:109-121
Metrics ==
    /\ pc = "metrics"
    /\ metrics' = calculate_metrics(hist_data)
    /\ num' = Get(company_info, "marketCap", Num(0, 0))
    /\ text' = format_large_number(num')
    /\ pc' = "chart"
    /\ UNCHANGED <<show_indicators, hist_data, company_info, outcome, original, figs,
                   shown, result>>

\* app.py:123-153
Chart ==
    /\ pc = "chart"
    /\ LET r == create_price_chart(hist_data, show_indicators, TRUE)
       IN  figs' = <<r.fig>> /\ hist_data' = r.df
    /\ shown' = "page"
    /\ pc' = "done"
    /\ UNCHANGED <<show_indicators, company_info, outcome, original, metrics, result,
                   num, text>>

\* streamlit runs the script again from the top on the next interaction
Rerun ==
    /\ pc \in {"done", "crashed"}
    /\ pc' = "sidebar"
    /\ show_indicators' = DefaultIndicators
    /\ hist_data' = None
    /\ company_info' = None
    /\ outcome' = "none"
    /\ original' = None
    /\ metrics' = None
    /\ figs' = <<>>
    /\ shown' = "none"
    /\ result' = None
    /\ num' = Num(0, 0)
    /\ text' = ""

Next == Sidebar \/ Fetch \/ Branch \/ Header \/ Metrics \/ Chart \/ Rerun

Spec == Init /\ [][Next]_vars

-----------------------------------------------------------------------------
(* Direct calls of the library functions on drawn inputs.                  *)

InitInd ==
    /\ pc = "lib"
    /\ hist_data \in {Frame(c) : c \in ShortCloses \cup ShapedCloses}
    /\ original = hist_data
    /\ show_indicators = DefaultIndicators
    /\ company_info = None /\ outcome = "none" /\ metrics = None /\ figs = <<>>
    /\ shown = "none" /\ result = None /\ num = Num(0, 0) /\ text = ""

\* result = calculate_technical_indicators(hist_data)
CallIndicators ==
    /\ pc = "lib"
    /\ result = None
    /\ result' = calculate_technical_indicators(hist_data)
    /\ hist_data' = result'
    /\ UNCHANGED <<pc, show_indicators, company_info, outcome, original, metrics, figs,
                   shown, num, text>>

SpecInd == InitInd /\ [][CallIndicators]_vars

\* the frames charted: the short series of fewer than MaxShort bars, one
\* series with RSI values and one with moving averages
ChartCloses ==
    {c \in ShortCloses : Len(c) < MaxShort}
        \cup {Shaped(RSI_WINDOW + 1, 1, 2, 1, 3), Shaped(SMA_SHORT + 1, 1, 2, 3, 2)}

InitChart ==
    /\ pc = "lib"
    /\ hist_data \in {Frame(c) : c \in ChartCloses}
    /\ original = hist_data
    /\ show_indicators \in Configs \cup {None}
    /\ company_info = None /\ outcome = "none" /\ metrics = None /\ figs = <<>>
    /\ shown = "none" /\ result = None /\ num = Num(0, 0) /\ text = ""

\* fig = create_price_chart(hist_data, show_indicators), MaxCalls times in a row
CallChart ==
    /\ pc = "lib"
    /\ Len(figs) < MaxCalls
    /\ LET r == create_price_chart(hist_data, show_indicators, TRUE)
       IN  figs' = Append(figs, r.fig) /\ hist_data' = r.df
    /\ UNCHANGED <<pc, show_indicators, company_info, outcome, original, metrics, shown,
                   result, num, text>>

SpecChart == InitChart /\ [][CallChart]_vars

InitFmt ==
    /\ pc = "lib"
    /\ num \in NumInputs
    /\ text = ""
    /\ show_indicators = DefaultIndicators /\ hist_data = None /\ original = None
    /\ company_info = None /\ outcome = "none" /\ metrics = None /\ figs = <<>>
    /\ shown = "none" /\ result = None

\* text = format_large_number(num)
CallFormat ==
    /\ pc = "lib"
    /\ text = ""
    /\ text' = format_large_number(num)
    /\ UNCHANGED <<pc, show_indicators, hist_data, company_info, outcome, original,
                   metrics, figs, shown, result, num>>

SpecFmt == InitFmt /\ [][CallFormat]_vars

-----------------------------------------------------------------------------
(* Properties.  Positions are 1-based here: position p is index p - 1 of   *)
(* the pandas Series.                                                      *)

\* C1: after calculate_technical_indicators(df), and after
\* create_price_chart(df, cfg), the caller's DataFrame holds exactly the
\* columns and values it held before the call.
C1_InputNotMutated ==
    (result # None \/ figs # <<>>) => hist_data = original

\* the names a chart must carry under the toggles cfg
ExpectedNames(cfg) ==
    {"OHLC", "Volume"}
        \cup (IF cfg.sma THEN {"SMA 20", "SMA 50"} ELSE {})
        \cup (IF cfg.ema THEN {"EMA 20"} ELSE {})
        \cup (IF cfg.bollinger THEN {"BB Upper", "BB Middle", "BB Lower"} ELSE {})
        \cup (IF cfg.rsi THEN {"RSI"} ELSE {})
        \cup (IF cfg.macd THEN {"MACD", "Signal", "MACD Histogram"} ELSE {})

\* the toggles a call works with: the all-off default when none were given
Effective(show) == IF show = None THEN DefaultIndicators ELSE show

\* C2: the traces of every chart create_price_chart returned are exactly the
\* OHLC candlestick and the Volume bars, plus each indicator group whose
\* toggle is true, each once; the 70 and 30 reference lines are there iff rsi
\* is true; nothing of a group whose toggle is false appears.
C2_TracesMatchToggles ==
    \A k \in 1..Len(figs) :
        LET fig == figs[k]
            cfg == Effective(show_indicators)
        IN  /\ {fig.data[j].name : j \in 1..Len(fig.data)} = ExpectedNames(cfg)
            /\ Len(fig.data) = Cardinality(ExpectedNames(cfg))
            /\ {fig.shapes[j].y : j \in 1..Len(fig.shapes)}
                   = (IF cfg.rsi THEN {70, 30} ELSE {})
            /\ Len(fig.shapes) = (IF cfg.rsi THEN 2 ELSE 0)

\* a chart was built with the RSI group on and the MACD group off
C2_Witness ==
    /\ figs # <<>>
    /\ show_indicators # None
    /\ show_indicators.rsi /\ ~show_indicators.macd /\ show_indicators.sma
    /\ Len(figs[1].shapes) = 2
    /\ Len(figs[1].data) = 5

\* C3: when the fetch raised or answered with an empty history, the render
\* of that request ends showing the 'Unable to fetch data' error (and so
\* never ends in an exception raised while reading the closes, computing the
\* metrics or building the chart).
C3_FailedFetchEndsInError ==
    outcome \in {"raised", "empty"} /\ pc \in {"done", "crashed"} => shown = "error"

\* no close of the RSI window ending at p fell: its average loss is 0
AvgLossZero(close, p) ==
    \A q \in (p - 13)..p : q = 1 \/ close[q] >= close[q - 1]

\* C4: at every position whose trailing 14-sample average loss is 0, a
\* window without any change included, RSI is 100 and not missing.
C4_ZeroLossGivesHundred ==
    result # None =>
        \A p \in 14..Len(result["Close"]) :
            AvgLossZero(result["Close"], p) => result["RSI"][p] = Frac(100, 1)

\* the steps whose percentage change is defined: the previous close is not 0
DefinedSteps(close) == {p \in 2..Len(close) : close[p - 1] # 0}

\* the mean of the percentage changes of the defined steps
StepMean(close) ==
    LET keep == DefinedSteps(close)
    IN  IF keep = {} THEN NaN
        ELSE XDiv(XSumOver(pct_change(close), keep, 1, Len(close)),
                  Frac(Cardinality(keep), 1))

\* the sample variance of the percentage changes of the defined steps
StepVar(close) ==
    LET keep == DefinedSteps(close)
        r == pct_change(close)
        avg == StepMean(close)
        sq == [p \in 1..Len(close) |->
                 IF p \in keep THEN XMul(XSub(r[p], avg), XSub(r[p], avg)) ELSE NaN]
    IN  IF Cardinality(keep) < 2 THEN NaN
        ELSE XDiv(XSumOver(sq, keep, 1, Len(close)), Frac(Cardinality(keep) - 1, 1))

\* C5: calculate_metrics drops every step whose previous close is 0: 'Daily
\* Returns' and 'Volatility' are 100 times the mean and the sample standard
\* deviation of the percentage changes of the remaining steps.
C5_ZeroStepsDropped ==
    metrics # None =>
        /\ metrics["DailyReturns"] = XMul(StepMean(original["Close"]), Frac(100, 1))
        /\ metrics["Volatility"] = Surd(Frac(0, 1), 100, StepVar(original["Close"]))

\* C6: on a series of at least 50 bars, SMA_20 at index i >= 19 is the
\* arithmetic mean of close[i-19..i], closes at or before i only, and is
\* missing at every index i < 19.
C6_SMA20IsTrailingMean ==
    result # None /\ Len(result["Close"]) >= 50 =>
        \A p \in 1..Len(result["Close"]) :
            result["SMA_20"][p] = IF p < 20 THEN NaN
                                  ELSE Frac(SumSeq(result["Close"], p - 19, p), 20)

\* the indicators of a series of 50 bars or more were computed, and its
\* SMA_20 moves
C6_Witness ==
    /\ result # None
    /\ Len(result["Close"]) >= 50
    /\ IsNaN(result["SMA_20"][19])
    /\ \E p \in 21..Len(result["Close"]) : result["SMA_20"][p] # result["SMA_20"][20]

\* the last character of a text
Suffix(t) == SubSeq(t, Len(t), Len(t))

Digits == {"0", "1", "2", "3", "4", "5", "6", "7", "8", "9"}

\* C7: format_large_number ends in B iff num >= 1e9, in M iff
\* 1e6 <= num < 1e9, in K iff 1e3 <= num < 1e6 and has no suffix iff
\* num < 1e3; zero and every negative number come out with two decimals and
\* no suffix; 999, 1000, 1500000, 2300000000, 0, -500, -5000000 give
\* "999.00", "1.00K", "1.50M", "2.30B", "0.00", "-500.00", "-5000000.00".
C7_UnitBySignedValue ==
    text # "" =>
        /\ Suffix(text) = "B" <=> Geq(num, 9)
        /\ Suffix(text) = "M" <=> Geq(num, 6) /\ ~Geq(num, 9)
        /\ Suffix(text) = "K" <=> Geq(num, 3) /\ ~Geq(num, 6)
        /\ Suffix(text) \in Digits <=> ~Geq(num, 3)
        /\ num.m <= 0 => /\ Suffix(text) \in Digits
                         /\ SubSeq(text, Len(text) - 2, Len(text) - 2) = "."
        /\ num = Num(999, 0) => text = "999.00"
        /\ num = Num(1000, 0) => text = "1.00K"
        /\ num = Num(1500000, 0) => text = "1.50M"
        /\ num = Num(2300, 6) => text = "2.30B"
        /\ num = Num(0, 0) => text = "0.00"
        /\ num = Num(-500, 0) => text = "-500.00"
        /\ num = Num(-5000000, 0) => text = "-5000000.00"

\* a negative number of large magnitude was formatted
C7_Witness == num = Num(-5000000, 0) /\ text = "-5000000.00"

\* C8: every further call of create_price_chart on the same DataFrame object
\* with the same toggles returns a chart equal to the first one: the same
\* traces in the same order with the same values.
C8_RepeatedCallSameChart ==
    \A k \in 2..Len(figs) : figs[k] = figs[1]

\* the chart of a series with RSI values was built twice, indicators shown
C8_Witness ==
    /\ Len(figs) >= 2
    /\ show_indicators # None
    /\ show_indicators.ema /\ show_indicators.rsi /\ show_indicators.macd
    /\ Len(hist_data["Close"]) > 14
    /\ "EMA_20" \in DOMAIN hist_data

\* C9: wherever RSI is not missing it lies between 0 and 100.
C9_RSIInRange ==
    result # None =>
        \A p \in 1..Len(result["RSI"]) :
            ~IsNaN(result["RSI"][p]) =>
                /\ XLeq(Frac(0, 1), result["RSI"][p])
                /\ XLeq(result["RSI"][p], Frac(100, 1))

\* some RSI value lies strictly between 0 and 100, another one is 100
C9_Witness ==
    /\ result # None
    /\ \E p \in 1..Len(result["RSI"]) :
          /\ IsFinite(result["RSI"][p])
          /\ result["RSI"][p] # Frac(0, 1)
          /\ result["RSI"][p] # Frac(100, 1)
    /\ \E p \in 1..Len(result["RSI"]) : result["RSI"][p] = Frac(100, 1)

\* C10: on a non-empty series EMA_20 holds a value at every index,
\* EMA_20[0] = close[0], and EMA_20[i] = a*close[i] + (1-a)*EMA_20[i-1] with
\* a = 2/21 at every i >= 1; MACD[0], MACD_Signal[0] and MACD_Hist[0] are 0.
\* With E[p] = 21^(p-1) * EMA_20 and C[p] = 21^(p-1) * close at position p
\* the recurrence reads 21*E[p] = 2*C[p] + 19*21*E[p-1].
C10_EMASeededByFirstClose ==
    result # None /\ result["Close"] # <<>> =>
        LET close == result["Close"]
            E == result["EMA_20"].num
            C == Scaled(close, 21).num
        IN  /\ result["EMA_20"].den = 21
            /\ Len(E) = Len(close)
            /\ E[1] = BigOf(close[1])
            /\ \A p \in 2..Len(close) :
                  BigScale(E[p], 21)
                      = BigAdd(BigScale(C[p], 2), BigScale(E[p - 1], 19 * 21))
            /\ result["MACD"].num[1] = BigZero
            /\ result["MACD_Signal"].num[1] = BigZero
            /\ result["MACD_Hist"].num[1] = BigZero

\* the indicators of a series whose second close differs from its first
\* were computed, and the MACD line leaves 0
C10_Witness ==
    /\ result # None
    /\ Len(result["Close"]) >= 2
    /\ result["Close"][2] # result["Close"][1]
    /\ result["EMA_20"].num[2] # BigScale(BigOf(result["Close"][1]), 21)
    /\ result["MACD"].num[2] # BigZero

====
